---- MODULE Spec2Model ----
(***************************************************************************)
(* Model of the identity-resolution and dispatch core of the parachain     *)
(* node: infrablockspace-parachain/src/command.rs (extract_parachain_id,   *)
(* runtime, load_spec, run) and chain_spec/infra_asset_system.rs (the      *)
(* built-in chain specifications and infra_asset_system_genesis).          *)
(*                                                                         *)
(* Strings are sequences of one-character strings, so that prefix tests,   *)
(* slicing and character replacement are computed as the code computes     *)
(* them.  A u32 is a pair of 16-bit limbs [hi, lo] (value hi*2^16 + lo),   *)
(* so that the overflow check of str::parse::<u32> is exact.  A Balance is *)
(* a sequence of limbs in base 10000, least significant first.             *)
(***************************************************************************)
EXTENDS Integers, Sequences, FiniteSets, TLC

VARIABLES
    id,      \* the identifier handed to the resolution functions
    norm,    \* outcome of extract_parachain_id(id)
    normr,   \* outcome of the normalisation runtime() performs on id
    rt,      \* outcome of runtime(id)
    rtc,     \* outcome of runtime(canonical id of id), canonical id from normr
    rtn,     \* outcome of runtime(canonical id of id), canonical id from norm
    id2,     \* a second identifier, loaded under the same files as id
    fs,      \* the files at the paths load_spec may open: path -> file state
    bundled, \* the chain-spec document compiled into the binary (include_bytes!)
    loaded,  \* outcome of load_spec(id)
    loaded2, \* outcome of load_spec(id2)
    cmd,        \* cli.subcommand of this invocation of run()
    feat,       \* the cargo features the binary was built with
    pc,         \* where run() is: Idle, Resolving, Dispatched, Completed, Failed, Panicked
    chain_spec, \* runner.config().chain_spec, once the runner exists
    partials,   \* number of new_partial calls of this invocation
    handler,    \* the operation handler invoked, "none" before
    result,     \* what run() returned: Ok, Err(message), or a panic
    ed,         \* the runtime's EXISTENTIAL_DEPOSIT, a constant of the build
    ginput,     \* arguments of a call of infra_asset_system_genesis
    genesis,    \* outcome of infra_asset_system_genesis(ginput)
    specs,      \* the specifications load_spec built in process: id -> spec
    genesisOf   \* the genesis configurations their closures produced: id -> genesis

idVars == <<norm, normr, rt, rtc, rtn>>

loadVars == <<id2, fs, bundled, loaded, loaded2>>

runVars == <<cmd, feat, pc, chain_spec, partials, handler, result>>

genVars == <<ed, ginput, genesis, specs, genesisOf>>

vars == <<id, idVars, loadVars, runVars, genVars>>

----------------------------------------------------------------------------
(* Bounds of the model.                                                    *)

\* longest enumerated suffix appended to a base identifier
MaxSuffixLen == 2

\* longest enumerated suffix of the identifiers handed to load_spec
MaxLoadSuffixLen == 1

----------------------------------------------------------------------------
(* Strings.                                                                *)

\* const KUSAMA_TEST_PARA_PREFIX: &str = "penpal-kusama-";
KUSAMA_TEST_PARA_PREFIX ==
    <<"p","e","n","p","a","l","-","k","u","s","a","m","a","-">>

\* const INFRABLOCKSPACE_TEST_PARA_PREFIX: &str = "penpal-polkadot-";
INFRABLOCKSPACE_TEST_PARA_PREFIX ==
    <<"p","e","n","p","a","l","-","p","o","l","k","a","d","o","t","-">>

\* the literal "infra-asset-system" of runtime() and of load_spec()
INFRA_ASSET_SYSTEM ==
    <<"i","n","f","r","a","-","a","s","s","e","t","-","s","y","s","t","e","m">>

\* str::starts_with
starts_with(s, p) ==
    /\ Len(s) >= Len(p)
    /\ SubSeq(s, 1, Len(p)) = p

\* str::replace for one-character patterns: every occurrence is replaced
replace(s, from, to) ==
    [i \in 1..Len(s) |-> IF s[i] = from THEN to ELSE s[i]]

----------------------------------------------------------------------------
(* u32 and str::parse::<u32>.                                              *)

\* width of the parachain id: let para_id: u32
U32Bits == 32

\* a u32 is held as two limbs of half its width
LimbBase == 2 ^ (U32Bits \div 2)

Digits == {"0","1","2","3","4","5","6","7","8","9"}

DigitVal(c) ==
    CASE c = "0" -> 0 [] c = "1" -> 1 [] c = "2" -> 2 [] c = "3" -> 3
      [] c = "4" -> 4 [] c = "5" -> 5 [] c = "6" -> 6 [] c = "7" -> 7
      [] c = "8" -> 8 [] c = "9" -> 9

DigitChar(d) ==
    CASE d = 0 -> "0" [] d = 1 -> "1" [] d = 2 -> "2" [] d = 3 -> "3"
      [] d = 4 -> "4" [] d = 5 -> "5" [] d = 6 -> "6" [] d = 7 -> "7"
      [] d = 8 -> "8" [] d = 9 -> "9"

U32(h, l) == [hi |-> h, lo |-> l]

\* u32::checked_mul(10) followed by u32::checked_add(d): the value
\* acc * 10 + d, or overflow when it does not fit 32 bits
checked_mul10_add(acc, d) ==
    LET l == acc.lo * 10 + d
        h == acc.hi * 10 + (l \div LimbBase)
    IN  IF h >= LimbBase
        THEN [ok |-> FALSE, v |-> U32(0, 0)]
        ELSE [ok |-> TRUE, v |-> U32(h, l % LimbBase)]

RECURSIVE parse_digits(_, _, _)
\* the digit loop of from_str_radix: an invalid digit or an overflow is Err
parse_digits(s, i, acc) ==
    IF i > Len(s) THEN [ok |-> TRUE, v |-> acc]
    ELSE IF s[i] \notin Digits THEN [ok |-> FALSE, v |-> U32(0, 0)]
    ELSE LET r == checked_mul10_add(acc, DigitVal(s[i]))
         IN  IF r.ok THEN parse_digits(s, i + 1, r.v) ELSE r

\* suffix.parse::<u32>(): empty is Err, a lone sign is Err, one leading '+'
\* is accepted, '-' is an invalid digit of an unsigned type
parse_u32(s) ==
    IF Len(s) = 0 THEN [ok |-> FALSE, v |-> U32(0, 0)]
    ELSE IF Len(s) = 1 /\ s[1] \in {"+", "-"} THEN [ok |-> FALSE, v |-> U32(0, 0)]
    ELSE IF s[1] = "+" THEN parse_digits(s, 2, U32(0, 0))
    ELSE parse_digits(s, 1, U32(0, 0))

----------------------------------------------------------------------------
(* Outcomes.  A call ends by returning a value or by a panic (expect).     *)

NotCalled == [tag |-> "not_called"]

Panic(m) == [tag |-> "panic", msg |-> m]

None == [some |-> FALSE]

Some(x) == [some |-> TRUE, v |-> x]

----------------------------------------------------------------------------
(* extract_parachain_id, command.rs 131-148.                               *)

\* one prefix arm of extract_parachain_id with the suffix parse replaced by
\* unwrap_or_default(): a bad suffix yields sub-id 0 instead of a panic
extract_with_prefix_defaulting(s, prefix) ==
    LET suffix == SubSeq(s, Len(prefix) + 1, Len(s))
        p == parse_u32(suffix)
    IN  [tag |-> "ok", norm_id |-> SubSeq(s, 1, Len(prefix) - 1), orig_id |-> s,
         para |-> Some(IF p.ok THEN p.v ELSE U32(0, 0))]

\* one prefix arm whose canonical-id slice is off by one: &id[..PREFIX.len()]
\* keeps the trailing hyphen of the prefix
extract_with_prefix_keeps_hyphen(s, prefix) ==
    LET suffix == SubSeq(s, Len(prefix) + 1, Len(s))
        p == parse_u32(suffix)
    IN  IF ~p.ok THEN Panic("Invalid parachain-id suffix")
        ELSE [tag |-> "ok", norm_id |-> SubSeq(s, 1, Len(prefix)),
              orig_id |-> s, para |-> Some(p.v)]

\* one prefix arm: slice the suffix, parse it as u32 (expect), return the
\* prefix without its trailing hyphen, the input, and Some(para_id)
extract_with_prefix(s, prefix) ==
    LET suffix == SubSeq(s, Len(prefix) + 1, Len(s))
        p == parse_u32(suffix)
    IN  IF ~p.ok THEN Panic("Invalid parachain-id suffix")
        ELSE [tag |-> "ok", norm_id |-> SubSeq(s, 1, Len(prefix) - 1),
              orig_id |-> s, para |-> Some(p.v)]

extract_parachain_id(s) ==
    IF starts_with(s, KUSAMA_TEST_PARA_PREFIX)
    THEN extract_with_prefix(s, KUSAMA_TEST_PARA_PREFIX)
    ELSE IF starts_with(s, INFRABLOCKSPACE_TEST_PARA_PREFIX)
    THEN extract_with_prefix(s, INFRABLOCKSPACE_TEST_PARA_PREFIX)
    ELSE [tag |-> "ok", norm_id |-> s, orig_id |-> s, para |-> None]

----------------------------------------------------------------------------
(* enum Runtime and fn runtime, command.rs 40-45 and 74-84.                *)

Runtime == {"Default", "InfraAssetSystem"}

Returned(x) == [tag |-> "ok", v |-> x]

\* runtime() without the underscore replacement of its first line
runtime_no_replace(s) ==
    LET r == extract_parachain_id(s)
    IN  IF r.tag = "panic" THEN r
        ELSE IF starts_with(r.orig_id, INFRA_ASSET_SYSTEM)
        THEN Returned("InfraAssetSystem")
        ELSE Returned("Default")

\* the normalisation runtime() performs: '_' -> '-', then extract_parachain_id
normalize(s) == extract_parachain_id(replace(s, "_", "-"))

\* fn runtime(id: &str) -> Runtime; the second component (the original id)
\* of the extraction is the one tested against the prefix
runtime(s) ==
    LET r == normalize(s)
    IN  IF r.tag = "panic" THEN r
        ELSE IF starts_with(r.orig_id, INFRA_ASSET_SYSTEM)
        THEN Returned("InfraAssetSystem")
        ELSE Returned("Default")

----------------------------------------------------------------------------
(* Identifiers the resolution functions are applied to.                    *)

RECURSIVE SeqsUpTo(_, _)
\* all sequences over alphabet A of length at most n
SeqsUpTo(A, n) ==
    IF n = 0 THEN {<<>>}
    ELSE LET shorter == SeqsUpTo(A, n - 1)
         IN  shorter \cup {Append(s, a) : s \in shorter, a \in A}

SuffixAlphabet == {"0", "7", "+", "-", "_", "x"}

\* suffixes at the edge of the u32 range, and the built-in names' endings
SpecialSuffixes ==
    { <<"4","2","9","4","9","6","7","2","9","5">>,
      <<"4","2","9","4","9","6","7","2","9","6">>,
      <<"0","4","2","9","4","9","6","7","2","9","5">>,
      <<"4","2","9","4","9","6","7","2","9","5","0">>,
      <<"+","4","2","9","4","9","6","7","2","9","5">>,
      <<"6","5","5","3","6">>,
      <<"2","0","0","4">>,
      <<"2","0","0","4","_">>,
      <<"-","d","e","v">>,
      <<"_","d","e","v">>,
      <<"-","l","o","c","a","l">>,
      <<"-","g","e","n","e","s","i","s">> }

Suffixes == SeqsUpTo(SuffixAlphabet, MaxSuffixLen) \cup SpecialSuffixes

Bases ==
    { <<>>,
      KUSAMA_TEST_PARA_PREFIX,
      INFRABLOCKSPACE_TEST_PARA_PREFIX,
      replace(KUSAMA_TEST_PARA_PREFIX, "-", "_"),
      replace(INFRABLOCKSPACE_TEST_PARA_PREFIX, "-", "_"),
      SubSeq(KUSAMA_TEST_PARA_PREFIX, 1, Len(KUSAMA_TEST_PARA_PREFIX) - 1),
      INFRA_ASSET_SYSTEM,
      replace(INFRA_ASSET_SYSTEM, "-", "_"),
      <<"x">> \o INFRA_ASSET_SYSTEM }

Ids == {b \o s : b \in Bases, s \in Suffixes}

\* Balance = u128: the little-endian sequence of its limbs in base
\* BalanceBase, without a leading zero limb (zero is the empty sequence)
BalanceBase == 10000

ZeroBalance == <<>>

RECURSIVE mul_carry(_, _, _)
\* limbs of b * k + carry, for a small multiplier k > 0
mul_carry(b, k, carry) ==
    IF b = <<>>
    THEN IF carry = 0 THEN <<>>
         ELSE <<carry % BalanceBase>> \o mul_carry(<<>>, k, carry \div BalanceBase)
    ELSE LET t == Head(b) * k + carry
         IN  <<t % BalanceBase>> \o mul_carry(Tail(b), k, t \div BalanceBase)

\* Balance * integer literal
Balance_mul(b, k) == mul_carry(b, k, 0)

\* the values considered for the existential deposit, which the runtime
\* crate defines: 1, 1_000_000_000 and 99_999_999
EDValues == { <<1>>, <<0, 0, 10>>, <<9999, 9999>> }

\* no genesis configuration has been asked for
GenesisIdle ==
    /\ ed = <<0, 0, 10>>
    /\ ginput = NotCalled
    /\ genesis = NotCalled
    /\ specs = <<>>
    /\ genesisOf = <<>>

\* run() has not been entered: the state of its variables before it
RunIdle ==
    /\ cmd = "None"
    /\ feat = [runtime_benchmarks |-> FALSE, try_runtime |-> FALSE]
    /\ pc = "Idle"
    /\ chain_spec = NotCalled
    /\ partials = 0
    /\ handler = "none"
    /\ result = NotCalled
    /\ GenesisIdle

----------------------------------------------------------------------------
(* Specification of the pure resolution functions: an identifier is drawn, *)
(* and each function is applied to it once.                                *)

InitId ==
    /\ id \in Ids
    /\ norm = NotCalled
    /\ normr = NotCalled
    /\ rt = NotCalled
    /\ rtc = NotCalled
    /\ rtn = NotCalled
    /\ id2 = id
    /\ fs = <<>>
    /\ bundled = NotCalled
    /\ loaded = NotCalled
    /\ loaded2 = NotCalled
    /\ RunIdle

\* extract_parachain_id(id)
Normalize ==
    /\ norm = NotCalled
    /\ norm' = extract_parachain_id(id)
    /\ UNCHANGED <<id, normr, rt, rtc, rtn, loadVars, runVars, genVars>>

\* runtime(id)
Classify ==
    /\ rt = NotCalled
    /\ rt' = runtime(id)
    /\ normr' = normalize(id)
    /\ UNCHANGED <<id, norm, rtc, rtn, loadVars, runVars, genVars>>

\* runtime(canonical id), once the normalisation of id has succeeded
ReClassify ==
    /\ rtc = NotCalled
    /\ normr.tag = "ok"
    /\ rtc' = runtime(normr.norm_id)
    /\ UNCHANGED <<id, norm, normr, rt, rtn, loadVars, runVars, genVars>>

\* runtime(canonical id), the canonical id taken from extract_parachain_id(id)
ReClassifyExtracted ==
    /\ rtn = NotCalled
    /\ norm.tag = "ok"
    /\ rtn' = runtime(norm.norm_id)
    /\ UNCHANGED <<id, norm, normr, rt, rtc, loadVars, runVars, genVars>>

NextId == Normalize \/ Classify \/ ReClassify \/ ReClassifyExtracted

SpecId == InitId /\ [][NextId]_vars

----------------------------------------------------------------------------
(* The built-in chain specifications, chain_spec/infra_asset_system.rs.    *)
(* A specification built by from_genesis holds its genesis constructor as  *)
(* a closure: the record keeps the arguments the closure passes to         *)
(* infra_asset_system_genesis.                                             *)

\* get_account_id_from_seed::<sr25519::Public>(seed)
get_account_id_from_seed(seed) == [account |-> seed]

\* get_collator_keys_from_seed::<AuraId>(seed)
get_collator_keys_from_seed(seed) == [aura |-> seed]

\* hex!(..).into() : AccountId
hex_account(h) == [account |-> h]

\* hex!(..).unchecked_into() : AuraId
hex_aura(h) == [aura |-> h]

INFRA_ASSET_SYSTEM_US ==
    <<"i","n","f","r","a","_","a","s","s","e","t","_","s","y","s","t","e","m">>

\* the properties map each constructor fills: development (41-44),
\* local (78-81) and live (130-133)
development_properties == [ss58Format |-> 0, tokenSymbol |-> "", tokenDecimals |-> 10]

local_properties_dot == [ss58Format |-> 0, tokenSymbol |-> "DOT", tokenDecimals |-> 10]

local_properties == [ss58Format |-> 0, tokenSymbol |-> "", tokenDecimals |-> 10]

live_properties == [ss58Format |-> 0, tokenSymbol |-> "DOT", tokenDecimals |-> 10]

infra_asset_system_development_config ==
    [ name |-> "Infra Asset System Development",
      id |-> INFRA_ASSET_SYSTEM_US \o <<"_","d","e","v">>,
      chain_type |-> "Local",
      genesis |->
        [ invulnerables |->
            << <<get_account_id_from_seed("Alice"), get_collator_keys_from_seed("Alice")>> >>,
          endowed_accounts |->
            << get_account_id_from_seed("Alice"),
               get_account_id_from_seed("Bob"),
               get_account_id_from_seed("Alice//stash"),
               get_account_id_from_seed("Bob//stash") >>,
          id |-> 1000 ],
      boot_nodes |-> <<>>,
      properties |-> development_properties,
      extensions |-> Some([relay_chain |-> "polkadot-dev", para_id |-> 1000]) ]

infra_asset_system_local_config ==
    [ name |-> "Infra Asset System Local",
      id |-> INFRA_ASSET_SYSTEM_US \o <<"_","l","o","c","a","l">>,
      chain_type |-> "Local",
      genesis |->
        [ invulnerables |->
            << <<get_account_id_from_seed("Alice"), get_collator_keys_from_seed("Alice")>>,
               <<get_account_id_from_seed("Bob"), get_collator_keys_from_seed("Bob")>> >>,
          endowed_accounts |->
            << get_account_id_from_seed("Alice"),
               get_account_id_from_seed("Bob"),
               get_account_id_from_seed("Charlie"),
               get_account_id_from_seed("Dave"),
               get_account_id_from_seed("Eve"),
               get_account_id_from_seed("Ferdie"),
               get_account_id_from_seed("Alice//stash"),
               get_account_id_from_seed("Bob//stash"),
               get_account_id_from_seed("Charlie//stash"),
               get_account_id_from_seed("Dave//stash"),
               get_account_id_from_seed("Eve//stash"),
               get_account_id_from_seed("Ferdie//stash") >>,
          id |-> 1000 ],
      boot_nodes |-> <<>>,
      properties |-> local_properties,
      extensions |-> Some([relay_chain |-> "infrablockspace-local", para_id |-> 1000]) ]

infra_asset_system_config ==
    [ name |-> "Infra Asset System",
      id |-> INFRA_ASSET_SYSTEM,
      chain_type |-> "Live",
      genesis |->
        [ invulnerables |->
            << <<hex_account("4c3d674d2a01060f0ded218e5dcc6f90c1726f43df79885eb3e22d97a20d5421"),
                 hex_aura("4c3d674d2a01060f0ded218e5dcc6f90c1726f43df79885eb3e22d97a20d5421")>>,
               <<hex_account("c7d7d38d16bc23c6321152c50306212dc22c0efc04a2e52b5cccfc31ab3d7811"),
                 hex_aura("c7d7d38d16bc23c6321152c50306212dc22c0efc04a2e52b5cccfc31ab3d7811")>>,
               <<hex_account("c5c07ba203d7375675f5c1ebe70f0a5bb729ae57b48bcc877fcc2ab21309b762"),
                 hex_aura("c5c07ba203d7375675f5c1ebe70f0a5bb729ae57b48bcc877fcc2ab21309b762")>>,
               <<hex_account("0b2d0013fb974794bd7aa452465b567d48ef70373fe231a637c1fb7c547e85b3"),
                 hex_aura("0b2d0013fb974794bd7aa452465b567d48ef70373fe231a637c1fb7c547e85b3")>> >>,
          endowed_accounts |-> <<>>,
          id |-> 1000 ],
      boot_nodes |->
        << "/ip4/34.65.251.121/tcp/30334/p2p/12D3KooWG3GrM6XKMM4gp3cvemdwUvu96ziYoJmqmetLZBXE8bSa",
           "/ip4/34.65.35.228/tcp/30334/p2p/12D3KooWMRyTLrCEPcAQD6c4EnudL3vVzg9zji3whvsMYPUYevpq",
           "/ip4/34.83.247.146/tcp/30334/p2p/12D3KooWE4jFh5FpJDkWVZhnWtFnbSqRhdjvC7Dp9b8b3FTuubQC",
           "/ip4/104.199.117.230/tcp/30334/p2p/12D3KooWG9R8pVXKumVo2rdkeVD4j5PVhRTqmYgLHY3a4yPYgLqM" >>,
      properties |-> live_properties,
      extensions |-> Some([relay_chain |-> "infrablockspace", para_id |-> 1000]) ]

----------------------------------------------------------------------------
(* infra_asset_system_genesis, chain_spec/infra_asset_system.rs 188-251.   *)
(* The runtime bytecode and SAFE_XCM_VERSION are kept as names; WASM_BINARY *)
(* is taken to be present in the build.                                    *)

\* const INFRA_ASSET_SYSTEM_ED: Balance = ..::currency::EXISTENTIAL_DEPOSIT
INFRA_ASSET_SYSTEM_ED == ed

\* fn infra_asset_system_session_keys(keys: AuraId) -> SessionKeys
infra_asset_system_session_keys(keys) == [aura |-> keys]

\* every endowed account is given a zero balance
BalancesConfig_zero(endowed_accounts) ==
    [ balances |->
        [i \in 1..Len(endowed_accounts) |-> <<endowed_accounts[i], ZeroBalance>>] ]

\* every endowed account is given the candidacy bond
BalancesConfig_bond(endowed_accounts) ==
    [ balances |->
        [i \in 1..Len(endowed_accounts) |->
            <<endowed_accounts[i], Balance_mul(INFRA_ASSET_SYSTEM_ED, 16)>>] ]

\* balances: endowed_accounts.iter().cloned().map(|k| (k, ED * 4096)).collect()
BalancesConfig(endowed_accounts) ==
    [ balances |->
        [i \in 1..Len(endowed_accounts) |->
            <<endowed_accounts[i], Balance_mul(INFRA_ASSET_SYSTEM_ED, 4096)>>] ]

\* the id given is ignored
ParachainInfoConfig_fixed(para_id) == [parachain_id |-> 2000]

\* ParachainInfoConfig { parachain_id: id }
ParachainInfoConfig(para_id) == [parachain_id |-> para_id]

\* CollatorSelectionConfig { invulnerables: accounts of the pairs,
\* candidacy_bond: ED * 16, ..Default::default() }
CollatorSelectionConfig(invulnerables) ==
    [ invulnerables |-> [i \in 1..Len(invulnerables) |-> invulnerables[i][1]],
      candidacy_bond |-> Balance_mul(INFRA_ASSET_SYSTEM_ED, 16) ]

\* the validator id is the root key instead of the collator's account
SessionConfig_root_validator(invulnerables) ==
    [ keys |->
        [i \in 1..Len(invulnerables) |->
            << invulnerables[i][1],
               get_account_id_from_seed("Alice"),
               infra_asset_system_session_keys(invulnerables[i][2]) >>] ]

\* keys: invulnerables.into_iter().map(|(acc, aura)|
\*   (acc.clone(), acc, infra_asset_system_session_keys(aura))).collect()
SessionConfig(invulnerables) ==
    [ keys |->
        [i \in 1..Len(invulnerables) |->
            << invulnerables[i][1],
               invulnerables[i][1],
               infra_asset_system_session_keys(invulnerables[i][2]) >>] ]

\* the asset is not sufficient
AssetsConfig_insufficient ==
    [ assets |-> << <<99, get_account_id_from_seed("Alice"), FALSE, <<1000>> >> >>,
      metadata |-> << <<99, "iTEST", "iTEST", 12>> >>,
      accounts |-> << <<99, get_account_id_from_seed("Alice"), <<0, 0, 0, 0, 0, 10>> >> >> ]

\* pallet_assets::GenesisConfig { assets, metadata, accounts, ..Default };
\* the balances are (asset id, owner, is_sufficient, min_balance 1000) and
\* (asset id, account, 1_000_000_000_000_000_000_000 = 10 * 10000^5)
AssetsConfig ==
    [ assets |-> << <<99, get_account_id_from_seed("Alice"), TRUE, <<1000>> >> >>,
      metadata |-> << <<99, "iTEST", "iTEST", 12>> >>,
      accounts |-> << <<99, get_account_id_from_seed("Alice"), <<0, 0, 0, 0, 0, 10>> >> >> ]

\* pub fn infra_asset_system_genesis(invulnerables, endowed_accounts, id)
infra_asset_system_genesis(invulnerables, endowed_accounts, para_id) ==
    LET root_key == get_account_id_from_seed("Alice")
    IN  [ system |-> [code |-> "WASM_BINARY"],
          balances |-> BalancesConfig(endowed_accounts),
          parachain_info |-> ParachainInfoConfig(para_id),
          collator_selection |-> CollatorSelectionConfig(invulnerables),
          session |-> SessionConfig(invulnerables),
          assets |-> AssetsConfig,
          aura |-> "default",
          aura_ext |-> "default",
          sudo |-> [key |-> Some(root_key)],
          parachain_system |-> "default",
          infrablockspace_xcm |-> [safe_xcm_version |-> Some("SAFE_XCM_VERSION")] ]

----------------------------------------------------------------------------
(* Files.  A path holds no file, a file that cannot be opened, a file that *)
(* is not JSON, or a JSON document; of a document the model keeps its "id" *)
(* field (if any), whether it deserializes as a whole chain specification, *)
(* and whether that specification carries the parachain extension.         *)

Missing == [kind |-> "missing"]

Unreadable == [kind |-> "unreadable"]

NotJson == [kind |-> "not_json"]

Json(i, f, e) == [kind |-> "json", id |-> i, full |-> f, ext |-> e]

STATEMINE == <<"s","t","a","t","e","m","i","n","e">>

\* "id" fields of the documents on disk: one of the asset-system family
\* (written with underscores), one of no known family, one that runtime()
\* cannot classify
FileIds ==
    { INFRA_ASSET_SYSTEM_US \o <<"_","x">>,
      STATEMINE,
      KUSAMA_TEST_PARA_PREFIX \o <<"x">> }

\* a whole specification has an id; the extension may be absent
JsonFiles ==
    {Json(None, FALSE, FALSE)}
        \cup {Json(Some(i), FALSE, FALSE) : i \in FileIds}
        \cup {Json(Some(i), TRUE, e) : i \in FileIds, e \in BOOLEAN}

FileStates == {Missing, Unreadable, NotJson} \cup JsonFiles

\* the document behind include_bytes!("../../parachains/chain-specs/statemine.json")
BundledStates ==
    {NotJson, Json(Some(STATEMINE), TRUE, TRUE), Json(Some(INFRA_ASSET_SYSTEM), TRUE, TRUE)}

Ok(x) == [tag |-> "ok", spec |-> x]

Err(m) == [tag |-> "err", msg |-> m]

\* the specification GenericChainSpec deserializes from a whole document
spec_of_json(f) ==
    [ name |-> "from json", id |-> f.id.v, chain_type |-> "json",
      genesis |-> "raw", boot_nodes |-> <<>>, properties |-> None,
      extensions |-> IF f.ext THEN Some([relay_chain |-> "json", para_id |-> 1000])
                     ELSE None ]

\* InfraAssetSystemChainSpec::from_json_bytes(..)? : Err unless the bytes
\* are a whole specification
from_json_bytes(f) ==
    IF f.kind = "json" /\ f.full THEN Ok(spec_of_json(f))
    ELSE Err("Error parsing spec file")

\* InfraAssetSystemChainSpec::from_json_file(path)? : Err when the file
\* cannot be opened or is not a whole specification
from_json_file(path, files) ==
    LET f == files[path]
    IN  IF f.kind \in {"missing", "unreadable"} THEN Err("Error opening spec file")
        ELSE from_json_bytes(f)

\* the PathBuf resolver with its two expects replaced by a fall-back to
\* Runtime::default()
PathBuf_runtime_defaulting(path, files) ==
    LET f == files[path]
    IN  IF f.kind \in {"missing", "unreadable"} THEN Returned("Default")
        ELSE IF f.kind = "not_json" \/ ~f.id.some THEN Returned("Default")
        ELSE runtime(f.id.v)

\* impl RuntimeResolver for PathBuf: open (expect), read the "id" field
\* alone (expect), classify it
PathBuf_runtime(path, files) ==
    LET f == files[path]
    IN  IF f.kind \in {"missing", "unreadable"} THEN Panic("Failed to open file")
        ELSE IF f.kind = "not_json" \/ ~f.id.some
        THEN Panic("Failed to read 'json' file with ChainSpec configuration")
        ELSE runtime(f.id.v)

\* the "" arm of load_spec building the development specification
fallback_spec_development == infra_asset_system_development_config

\* the "" arm of load_spec (a warning is logged)
fallback_spec == infra_asset_system_local_config

\* the `path =>` arm of load_spec answering a file that cannot be opened
\* with the fallback specification and a warning
load_spec_from_path_falling_back(path, files) ==
    LET r == PathBuf_runtime(path, files)
    IN  IF files[path].kind \in {"missing", "unreadable"} THEN Ok(fallback_spec)
        ELSE IF r.tag = "panic" THEN r
        ELSE from_json_file(path, files)

\* the `path =>` arm of load_spec: both Runtime arms read the same file
load_spec_from_path(path, files) ==
    LET r == PathBuf_runtime(path, files)
    IN  IF r.tag = "panic" THEN r
        ELSE from_json_file(path, files)

\* fn load_spec(id: &str) -> Result<Box<dyn ChainSpec>, String>; the
\* identifier is matched as given: no '_' -> '-' replacement is made here
load_spec(s, files, blob) ==
    LET e == extract_parachain_id(s)
    IN  IF e.tag = "panic" THEN e
        ELSE IF e.norm_id = INFRA_ASSET_SYSTEM \o <<"-","d","e","v">>
        THEN Ok(infra_asset_system_development_config)
        ELSE IF e.norm_id = INFRA_ASSET_SYSTEM \o <<"-","l","o","c","a","l">>
        THEN Ok(infra_asset_system_local_config)
        ELSE IF e.norm_id = INFRA_ASSET_SYSTEM \o <<"-","g","e","n","e","s","i","s">>
        THEN Ok(infra_asset_system_config)
        ELSE IF e.norm_id = INFRA_ASSET_SYSTEM
        THEN from_json_bytes(blob)
        ELSE IF e.norm_id = <<>>
        THEN Ok(fallback_spec)
        ELSE load_spec_from_path(e.norm_id, files)

----------------------------------------------------------------------------
(* Specification of load_spec: an identifier, a second identifier (the     *)
(* same one with '-' for every '_', or the explicit local-testnet name     *)
(* beside the empty one) and the files are drawn; each is loaded once.     *)

LoadAlphabet == {"7", "_"}

LoadSuffixes ==
    SeqsUpTo(LoadAlphabet, MaxLoadSuffixLen)
        \cup { <<"2","0","0","4">>,
               <<"-","d","e","v">>,
               <<"_","d","e","v">>,
               <<"-","l","o","c","a","l">>,
               <<"-","g","e","n","e","s","i","s">> }

LoadIds == {b \o s : b \in Bases, s \in LoadSuffixes}

\* the paths load_spec(s) may open
PathsOf(s) ==
    LET e == extract_parachain_id(s)
    IN  IF e.tag = "ok" THEN {e.norm_id} ELSE {}

SecondIds(s) ==
    {replace(s, "_", "-")}
        \cup (IF s = <<>> THEN {INFRA_ASSET_SYSTEM \o <<"-","l","o","c","a","l">>} ELSE {})

InitLoad ==
    /\ id \in LoadIds
    /\ id2 \in SecondIds(id)
    /\ fs \in [PathsOf(id) \cup PathsOf(id2) -> FileStates]
    /\ bundled \in BundledStates
    /\ loaded = NotCalled
    /\ loaded2 = NotCalled
    /\ norm = NotCalled
    /\ normr = NotCalled
    /\ rt = NotCalled
    /\ rtc = NotCalled
    /\ rtn = NotCalled
    /\ RunIdle

\* load_spec(id)
Load ==
    /\ loaded = NotCalled
    /\ loaded' = load_spec(id, fs, bundled)
    /\ UNCHANGED <<id, idVars, id2, fs, bundled, loaded2, runVars, genVars>>

\* load_spec(id2)
LoadSecond ==
    /\ loaded2 = NotCalled
    /\ loaded2' = load_spec(id2, fs, bundled)
    /\ UNCHANGED <<id, idVars, id2, fs, bundled, loaded, runVars, genVars>>

NextLoad == Load \/ LoadSecond

SpecLoad == InitLoad /\ [][NextLoad]_vars

----------------------------------------------------------------------------
(* run(), command.rs 278-561: one invocation of the command dispatcher.    *)

\* the variants of cli::Subcommand matched by run(), the benchmark
\* sub-commands spelled out; "None" is the node-start path
Subcommands ==
    { "BuildSpec", "CheckBlock", "ExportBlocks", "ExportState", "ImportBlocks",
      "Revert", "PurgeChain", "ExportGenesisState", "ExportGenesisWasm",
      "BenchmarkPallet", "BenchmarkBlock", "BenchmarkStorage", "BenchmarkMachine",
      "BenchmarkOverhead", "TryRuntime", "Key", "None" }

\* the commands wrapped in construct_async_run!
AsyncRunCommands ==
    {"CheckBlock", "ExportBlocks", "ExportState", "ImportBlocks", "Revert"}

ExportGenesisCommands == {"ExportGenesisState", "ExportGenesisWasm"}

\* the builds of the binary: the try-runtime arm (392-490) names Runtime
\* variants and executors this crate does not define, so only builds
\* without that feature exist
Features == {[runtime_benchmarks |-> b, try_runtime |-> FALSE] : b \in BOOLEAN}

\* impl RuntimeResolver for dyn ChainSpec
ChainSpec_runtime(spec) == runtime(spec.id)

\* a match arm that invokes handler n, after new_partial when p
Invoke(n, p) == [kind |-> "handler", name |-> n, partial |-> p]

\* a match arm that is an Err expression
Unsupported(m) == [kind |-> "reject", msg |-> m]

\* construct_benchmark_partials! building the partial components for
\* every Runtime variant
construct_benchmark_partials_any_chain(rtv, n) == Invoke(n, TRUE)

\* construct_benchmark_partials!
construct_benchmark_partials(rtv, n) ==
    IF rtv = Returned("InfraAssetSystem") THEN Invoke(n, TRUE)
    ELSE Unsupported("The chain is not supported")

\* the Benchmark arm of run(), 343-391
benchmark_dispatch(c, f, spec) ==
    CASE c = "BenchmarkPallet" ->
            IF f.runtime_benchmarks
            THEN IF ChainSpec_runtime(spec) = Returned("InfraAssetSystem")
                 THEN Invoke("benchmark pallet", FALSE)
                 ELSE Unsupported("Chain 'Default' doesn't support benchmarking")
            ELSE Unsupported("Benchmarking wasn't enabled when building the node. You can enable it with --features runtime-benchmarks.")
      [] c = "BenchmarkBlock" ->
            construct_benchmark_partials(ChainSpec_runtime(spec), "benchmark block")
      [] c = "BenchmarkStorage" ->
            IF f.runtime_benchmarks
            THEN construct_benchmark_partials(ChainSpec_runtime(spec), "benchmark storage")
            ELSE Unsupported("Compile with --features=runtime-benchmarks to enable storage benchmarks.")
      [] c = "BenchmarkMachine" -> Invoke("benchmark machine", FALSE)
      [] OTHER -> Unsupported("Benchmarking sub-command unsupported")

\* the match of run() on the subcommand, for the arms that create a runner
run_dispatch(c, f, spec) ==
    CASE c = "BuildSpec" -> Invoke("build_spec", FALSE)
      [] c \in AsyncRunCommands -> Invoke(c, TRUE)
      [] c = "PurgeChain" -> Invoke("purge_chain", FALSE)
      [] c \in ExportGenesisCommands -> Invoke(c, FALSE)
      [] c = "None" -> Invoke("start_generic_aura_node", FALSE)
      [] OTHER -> benchmark_dispatch(c, f, spec)

\* chain_spec::Extensions::try_get(&*config.chain_spec)
Extensions_try_get(spec) == spec.extensions

\* the para_id lookup of node start with unwrap_or_default() for ok_or_else
node_start_para_id_defaulting(spec) ==
    LET e == Extensions_try_get(spec)
    IN  [tag |-> "ok", v |-> IF e.some THEN e.v.para_id ELSE 0]

\* Extensions::try_get(..).map(|e| e.para_id).ok_or_else(..)?
node_start_para_id(spec) ==
    LET e == Extensions_try_get(spec)
    IN  IF e.some THEN [tag |-> "ok", v |-> e.v.para_id]
        ELSE Err("Could not find parachain extension in chain-spec.")

\* the --chain arguments of the modelled invocations
RunIds ==
    { <<>>,
      INFRA_ASSET_SYSTEM \o <<"-","d","e","v">>,
      INFRA_ASSET_SYSTEM \o <<"-","l","o","c","a","l">>,
      INFRA_ASSET_SYSTEM \o <<"-","g","e","n","e","s","i","s">>,
      INFRA_ASSET_SYSTEM,
      INFRA_ASSET_SYSTEM_US \o <<"_","d","e","v">>,
      <<"7">>,
      KUSAMA_TEST_PARA_PREFIX \o <<"2","0","0","4">>,
      KUSAMA_TEST_PARA_PREFIX \o <<"x">> }

Init ==
    /\ id \in RunIds
    /\ id2 = id
    /\ fs \in [PathsOf(id) -> FileStates]
    /\ bundled \in BundledStates
    /\ cmd \in Subcommands
    /\ feat \in Features
    /\ pc = "Idle"
    /\ chain_spec = NotCalled
    /\ partials = 0
    /\ handler = "none"
    /\ result = NotCalled
    /\ loaded = NotCalled
    /\ loaded2 = NotCalled
    /\ norm = NotCalled
    /\ normr = NotCalled
    /\ rt = NotCalled
    /\ rtc = NotCalled
    /\ rtn = NotCalled
    /\ GenesisIdle

\* let cli = Cli::from_args(); match &cli.subcommand
ParseCli ==
    /\ pc = "Idle"
    /\ pc' = "Resolving"
    /\ UNCHANGED <<id, idVars, loadVars, cmd, feat, chain_spec, partials, handler, result, genVars>>

\* cli.create_runner(cmd)?: the configuration is built and the chain
\* specification loaded by load_spec (181-183); building the configuration
\* may fail for reasons outside this file
CreateRunner ==
    /\ pc = "Resolving"
    /\ cmd \notin {"Key", "TryRuntime"}
    /\ \/ /\ pc' = "Failed"
          /\ result' = Err("configuration error")
          /\ UNCHANGED chain_spec
       \/ LET r == load_spec(id, fs, bundled)
          IN  /\ pc' = CASE r.tag = "ok" -> "Dispatched"
                         [] r.tag = "err" -> "Failed"
                         [] OTHER -> "Panicked"
              /\ chain_spec' = IF r.tag = "ok" THEN r.spec ELSE chain_spec
              /\ result' = IF r.tag = "ok" THEN result ELSE r
    /\ UNCHANGED <<id, idVars, loadVars, cmd, feat, partials, handler, genVars>>

\* #[cfg(not(feature = "try-runtime"))] Some(Subcommand::TryRuntime) => Err(..)
TryRuntimeDisabled ==
    /\ pc = "Resolving"
    /\ cmd = "TryRuntime"
    /\ ~feat.try_runtime
    /\ pc' = "Failed"
    /\ result' = Err("Try-runtime was not enabled when building the node. You can enable it with --features try-runtime.")
    /\ UNCHANGED <<id, idVars, loadVars, cmd, feat, chain_spec, partials, handler, genVars>>

\* Some(Subcommand::Key(cmd)) => Ok(cmd.run(&cli)?)
KeyRun ==
    /\ pc = "Resolving"
    /\ cmd = "Key"
    /\ handler' = "key"
    /\ \E ok \in BOOLEAN :
          /\ pc' = IF ok THEN "Completed" ELSE "Failed"
          /\ result' = IF ok THEN [tag |-> "ok"] ELSE Err("key")
    /\ UNCHANGED <<id, idVars, loadVars, cmd, feat, chain_spec, partials, genVars>>

\* a match arm that is an Err expression: no handler is called
RejectUnsupported ==
    /\ pc = "Dispatched"
    /\ LET d == run_dispatch(cmd, feat, chain_spec)
       IN  /\ d.kind = "reject"
           /\ result' = Err(d.msg)
    /\ pc' = "Failed"
    /\ UNCHANGED <<id, idVars, loadVars, cmd, feat, chain_spec, partials, handler, genVars>>

\* new_partial::<RuntimeApi, _>(&config, aura_build_import_queue)?
Construct ==
    /\ pc = "Dispatched"
    /\ LET d == run_dispatch(cmd, feat, chain_spec)
       IN  d.kind = "handler" /\ d.partial
    /\ partials = 0
    /\ partials' = 1
    /\ \E ok \in BOOLEAN :
          /\ pc' = IF ok THEN pc ELSE "Failed"
          /\ result' = IF ok THEN result ELSE Err("new_partial")
    /\ UNCHANGED <<id, idVars, loadVars, cmd, feat, chain_spec, handler, genVars>>

\* cmd.run(..) of build-spec, the async-run commands, purge-chain (whose
\* relay chain configuration may fail first) and the benchmark sub-commands
Handle ==
    /\ pc = "Dispatched"
    /\ cmd \notin ExportGenesisCommands \cup {"None"}
    /\ handler = "none"
    /\ LET d == run_dispatch(cmd, feat, chain_spec)
       IN  /\ d.kind = "handler"
           /\ d.partial => partials = 1
           /\ \/ /\ cmd = "PurgeChain"
                 /\ pc' = "Failed"
                 /\ result' = Err("Relay chain argument error")
                 /\ UNCHANGED handler
              \/ /\ handler' = d.name
                 /\ \E ok \in BOOLEAN :
                       /\ pc' = IF ok THEN "Completed" ELSE "Failed"
                       /\ result' = IF ok THEN [tag |-> "ok"] ELSE Err("handler")
    /\ UNCHANGED <<id, idVars, loadVars, cmd, feat, chain_spec, partials, genVars>>

\* export-genesis-state / export-genesis-wasm: the specification is loaded
\* again by cli.load_spec(..)? inside sync_run, then cmd.run
ExportGenesis ==
    /\ pc = "Dispatched"
    /\ cmd \in ExportGenesisCommands
    /\ handler = "none"
    /\ LET r == load_spec(id, fs, bundled)
       IN  IF r.tag # "ok"
           THEN /\ pc' = IF r.tag = "err" THEN "Failed" ELSE "Panicked"
                /\ result' = r
                /\ UNCHANGED handler
           ELSE /\ handler' = cmd
                /\ \E ok \in BOOLEAN :
                      /\ pc' = IF ok THEN "Completed" ELSE "Failed"
                      /\ result' = IF ok THEN [tag |-> "ok"] ELSE Err("handler")
    /\ UNCHANGED <<id, idVars, loadVars, cmd, feat, chain_spec, partials, genVars>>

\* the closure of run_node_until_exit, 500-558: the para id is read from
\* the extension (?), the genesis block is built (?), the relay chain
\* configuration is created (?), then start_generic_aura_node runs
StartNode ==
    /\ pc = "Dispatched"
    /\ cmd = "None"
    /\ handler = "none"
    /\ LET p == node_start_para_id(chain_spec)
       IN  IF p.tag = "err"
           THEN /\ pc' = "Failed"
                /\ result' = p
                /\ UNCHANGED handler
           ELSE \/ /\ pc' = "Failed"
                   /\ \E m \in {"generate_genesis_block", "Relay chain argument error"} :
                         result' = Err(m)
                   /\ UNCHANGED handler
                \/ /\ ChainSpec_runtime(chain_spec).v \in Runtime
                   /\ handler' = "start_generic_aura_node"
                   /\ \E ok \in BOOLEAN :
                         /\ pc' = IF ok THEN "Completed" ELSE "Failed"
                         /\ result' = IF ok THEN [tag |-> "ok"] ELSE Err("handler")
    /\ UNCHANGED <<id, idVars, loadVars, cmd, feat, chain_spec, partials, genVars>>

Next ==
    \/ ParseCli
    \/ CreateRunner
    \/ TryRuntimeDisabled
    \/ KeyRun
    \/ RejectUnsupported
    \/ Construct
    \/ Handle
    \/ ExportGenesis
    \/ StartNode

Spec == Init /\ [][Next]_vars

----------------------------------------------------------------------------
(* Specification of infra_asset_system_genesis: the existential deposit    *)
(* and the three arguments are drawn, and the function is applied once.    *)
(* The lists may be empty and may repeat an account.                       *)

MaxInvulnerables == 2

MaxEndowed == 2

Accounts == {get_account_id_from_seed(s) : s \in {"Alice", "Bob", "Charlie"}}

AuraKeys == {get_collator_keys_from_seed(s) : s \in {"Alice", "Bob"}}

ParaIds == {1000, 2000}

GenesisInputs ==
    [ invulnerables : SeqsUpTo(Accounts \X AuraKeys, MaxInvulnerables),
      endowed_accounts : SeqsUpTo(Accounts, MaxEndowed),
      id : ParaIds ]

\* neither an identifier function, load_spec nor run() is in use
ResolutionIdle ==
    /\ id = <<>>
    /\ norm = NotCalled
    /\ normr = NotCalled
    /\ rt = NotCalled
    /\ rtc = NotCalled
    /\ rtn = NotCalled
    /\ id2 = id
    /\ fs = <<>>
    /\ bundled = NotCalled
    /\ loaded = NotCalled
    /\ loaded2 = NotCalled
    /\ cmd = "None"
    /\ feat = [runtime_benchmarks |-> FALSE, try_runtime |-> FALSE]
    /\ pc = "Idle"
    /\ chain_spec = NotCalled
    /\ partials = 0
    /\ handler = "none"
    /\ result = NotCalled

InitGenesis ==
    /\ ResolutionIdle
    /\ ed \in EDValues
    /\ ginput \in GenesisInputs
    /\ genesis = NotCalled
    /\ specs = <<>>
    /\ genesisOf = <<>>

\* infra_asset_system_genesis(invulnerables, endowed_accounts, id)
BuildGenesis ==
    /\ genesis = NotCalled
    /\ genesis' = Returned(infra_asset_system_genesis(
                     ginput.invulnerables, ginput.endowed_accounts, ginput.id))
    /\ UNCHANGED <<id, idVars, loadVars, runVars, ed, ginput, specs, genesisOf>>

NextGenesis == BuildGenesis

SpecGenesis == InitGenesis /\ [][NextGenesis]_vars

----------------------------------------------------------------------------
(* Specification of the specifications built in process: load_spec is      *)
(* given each identifier it answers with a constructor of                  *)
(* chain_spec/infra_asset_system.rs, and the genesis closure of a          *)
(* specification so built is run.                                          *)

InProcessIds ==
    { <<>>,
      INFRA_ASSET_SYSTEM \o <<"-","d","e","v">>,
      INFRA_ASSET_SYSTEM \o <<"-","l","o","c","a","l">>,
      INFRA_ASSET_SYSTEM \o <<"-","g","e","n","e","s","i","s">> }

InitBuiltin ==
    /\ ResolutionIdle
    /\ ed \in EDValues
    /\ ginput = NotCalled
    /\ genesis = NotCalled
    /\ specs = <<>>
    /\ genesisOf = <<>>

\* load_spec(i) for an identifier of a specification built in process
Instantiate ==
    \E i \in InProcessIds \ DOMAIN specs :
        LET r == load_spec(i, fs, bundled)
        IN  /\ r.tag = "ok"
            /\ specs' = (i :> r.spec) @@ specs
            /\ UNCHANGED <<id, idVars, loadVars, runVars, ed, ginput, genesis, genesisOf>>

\* the closure from_genesis was given: move || infra_asset_system_genesis(..)
RunGenesisClosure ==
    \E i \in DOMAIN specs \ DOMAIN genesisOf :
        LET g == specs[i].genesis
        IN  /\ genesisOf' =
                 (i :> infra_asset_system_genesis(g.invulnerables, g.endowed_accounts, g.id))
                 @@ genesisOf
            /\ UNCHANGED <<id, idVars, loadVars, runVars, ed, ginput, genesis, specs>>

NextBuiltin == Instantiate \/ RunGenesisClosure

SpecBuiltin == InitBuiltin /\ [][NextBuiltin]_vars

----------------------------------------------------------------------------
(* Vocabulary of the properties: decimal numerals read without the parser. *)

PENPAL_KUSAMA == <<"p","e","n","p","a","l","-","k","u","s","a","m","a">>

PENPAL_POLKADOT == <<"p","e","n","p","a","l","-","p","o","l","k","a","d","o","t">>

U32_MAX_DECIMAL == <<"4","2","9","4","9","6","7","2","9","5">>

HasTestPrefix(s) ==
    \/ starts_with(s, PENPAL_KUSAMA \o <<"-">>)
    \/ starts_with(s, PENPAL_POLKADOT \o <<"-">>)

StemOf(s) ==
    IF starts_with(s, PENPAL_KUSAMA \o <<"-">>) THEN PENPAL_KUSAMA ELSE PENPAL_POLKADOT

SuffixOf(s) == SubSeq(s, Len(StemOf(s)) + 2, Len(s))

AllDigits(s) == Len(s) > 0 /\ \A i \in 1..Len(s) : s[i] \in Digits

RECURSIVE StripZeros(_)
StripZeros(s) ==
    IF Len(s) > 1 /\ s[1] = "0" THEN StripZeros(Tail(s)) ELSE s

RECURSIVE LexLeq(_, _)
\* a <= b for digit strings of equal length
LexLeq(a, b) ==
    IF Len(a) = 0 THEN TRUE
    ELSE IF a[1] # b[1] THEN DigitVal(a[1]) < DigitVal(b[1])
    ELSE LexLeq(Tail(a), Tail(b))

\* the numeral s (all digits) denotes a number of at most 2^32 - 1
FitsU32(s) ==
    LET z == StripZeros(s)
    IN  \/ Len(z) < Len(U32_MAX_DECIMAL)
        \/ Len(z) = Len(U32_MAX_DECIMAL) /\ LexLeq(z, U32_MAX_DECIMAL)

StripPlus(s) == IF Len(s) > 1 /\ s[1] = "+" THEN Tail(s) ELSE s

\* s is a decimal numeral of a u32: digits only, value in range
IsDecimalU32(s) == AllDigits(s) /\ FitsU32(s)

\* s is accepted by parse::<u32>: a decimal u32, optionally signed '+'
ParsesAsU32(s) == IsDecimalU32(StripPlus(s))

RECURSIVE to_decimal(_)
\* the decimal numeral of a u32 (Display), by repeated division by ten
to_decimal(v) ==
    LET t == (v.hi % 10) * LimbBase + v.lo
        q == U32(v.hi \div 10, t \div 10)
    IN  IF v.hi = 0 /\ v.lo < 10 THEN <<DigitChar(v.lo)>>
        ELSE Append(to_decimal(q), DigitChar(t % 10))

----------------------------------------------------------------------------
(* Properties of the resolution functions, checked under SpecId.           *)

\* C1: runtime(id) is total: for every identifier it returns a Runtime
\* variant (Default when unrecognized) and never aborts.
C1_RuntimeTotal ==
    rt # NotCalled => (rt.tag = "ok" /\ rt.v \in Runtime)

\* C5: for every identifier with a test-network prefix whose suffix does not
\* parse as a decimal u32, extract_parachain_id fails (panics); it returns
\* no result, in particular none with an absent or a default sub-id.
C5_BadSuffixFails ==
    (norm # NotCalled /\ HasTestPrefix(id) /\ ~ParsesAsU32(SuffixOf(id)))
        => norm.tag = "panic"

\* C5 witness: the extraction has panicked on a suffix one above u32::MAX
C5_Witness ==
    /\ norm.tag = "panic"
    /\ id = KUSAMA_TEST_PARA_PREFIX \o <<"4","2","9","4","9","6","7","2","9","6">>

\* C6: for <prefix><n>, n a decimal u32, extract_parachain_id returns
\* Some(n), the prefix stem as canonical id and the input as original id;
\* without a recognized prefix it returns the input and no sub-id.
C6_ExtractResult ==
    norm # NotCalled =>
        /\ (HasTestPrefix(id) /\ IsDecimalU32(SuffixOf(id))) =>
              /\ norm.tag = "ok"
              /\ norm.para.some
              /\ to_decimal(norm.para.v) = StripZeros(SuffixOf(id))
              /\ norm.norm_id = StemOf(id)
              /\ norm.orig_id = id
        /\ ~HasTestPrefix(id) =>
              norm = [tag |-> "ok", norm_id |-> id, orig_id |-> id, para |-> None]

\* C6 witness: the extraction has returned the largest u32 as sub-id
C6_Witness ==
    /\ norm.tag = "ok"
    /\ norm.para = Some(U32(LimbBase - 1, LimbBase - 1))
    /\ id = INFRABLOCKSPACE_TEST_PARA_PREFIX \o U32_MAX_DECIMAL

\* C7: whenever the normalisation of id succeeds, runtime(canonical id)
\* returns the variant runtime(id) returns; with the canonical id taken from
\* extract_parachain_id(id) alone, the two calls have the same outcome.
C7_ClassifyIdempotent ==
    /\ rtc # NotCalled => (rt.tag = "ok" /\ rt.v \in Runtime /\ rtc = rt)
    /\ (rtn # NotCalled /\ rt # NotCalled) => rtn = rt

\* C7 witness: an underscore identifier whose canonical id differs from it
\* has been classified, as InfraAssetSystem, both ways
C7_Witness ==
    /\ rtc = Returned("InfraAssetSystem")
    /\ rt = Returned("InfraAssetSystem")
    /\ normr.tag = "ok"
    /\ normr.norm_id # id

----------------------------------------------------------------------------
(* Properties of load_spec, checked under SpecLoad.                        *)

LOCAL_TESTNET_ID == INFRA_ASSET_SYSTEM \o <<"-","l","o","c","a","l">>

\* the identifiers load_spec answers without reading a file
BuiltinIds ==
    { <<>>,
      INFRA_ASSET_SYSTEM \o <<"-","d","e","v">>,
      LOCAL_TESTNET_ID,
      INFRA_ASSET_SYSTEM \o <<"-","g","e","n","e","s","i","s">>,
      INFRA_ASSET_SYSTEM }

\* a test-network identifier whose sub-id suffix is no u32
Malformed(s) == HasTestPrefix(s) /\ ~ParsesAsU32(SuffixOf(s))

\* the path a well-formed identifier names: itself, or the stem of a
\* test-network identifier
DerivedPath(s) == IF HasTestPrefix(s) THEN StemOf(s) ELSE s

\* there is no file at the path the identifier names
NamesNoFile(s) == Malformed(s) \/ fs[DerivedPath(s)] = Missing

\* the file cannot be read as a chain specification
BadFile(f) ==
    \/ f \in {Missing, Unreadable, NotJson}
    \/ f.kind = "json" /\ (~f.id.some \/ ~f.full)

\* C2 as stated: an identifier that is no built-in id and names no existing
\* file makes load_spec fall back to a default development-style
\* specification (non-fatal).
C2_UnrecognizedFallsBack ==
    (loaded # NotCalled /\ id \notin BuiltinIds /\ NamesNoFile(id))
        => /\ loaded.tag = "ok"
           /\ loaded.spec \in {infra_asset_system_development_config,
                               infra_asset_system_local_config}

\* C2 as amended: an identifier that is no built-in id and names no existing
\* file is fatal to load_spec: no specification is returned, neither a
\* fallback nor any other.
C2_UnrecognizedIsFatal ==
    (loaded # NotCalled /\ id \notin BuiltinIds /\ NamesNoFile(id))
        => loaded.tag \in {"panic", "err"}

\* C2 witness: load_spec has ended without a specification on an
\* identifier that is treated as a path at which there is no file
C2_Witness ==
    /\ loaded.tag \in {"panic", "err"}
    /\ id \notin BuiltinIds
    /\ ~Malformed(id)
    /\ fs[DerivedPath(id)] = Missing

\* C3: when load_spec treats the identifier as a path and the file is
\* missing, unreadable, without "id" or not a valid specification, load_spec
\* returns an Err value (and no specification); it does not abort.
C3_FileErrorsReturned ==
    (loaded # NotCalled /\ id \notin BuiltinIds /\ ~Malformed(id)
        /\ BadFile(fs[DerivedPath(id)]))
        => loaded.tag = "err"

\* C4: two identifiers that differ only in '_' against '-' are loaded alike:
\* when the hyphen spelling yields a specification, the underscore spelling
\* yields the same one (the files at the paths the two spellings may name
\* being the same, so that only the spelling differs).
C4_SeparatorsEquivalent ==
    (loaded # NotCalled /\ loaded2.tag = "ok" /\ id2 = replace(id, "_", "-")
        /\ \A p, q \in DOMAIN fs : fs[p] = fs[q])
        => loaded = loaded2

\* C8: load_spec("") returns the specification load_spec returns for the
\* explicit local-testnet identifier, field by field.
C8_EmptyIsLocal ==
    (id = <<>> /\ id2 = LOCAL_TESTNET_ID /\ loaded # NotCalled /\ loaded2 # NotCalled)
        => /\ loaded.tag = "ok"
           /\ loaded2.tag = "ok"
           /\ loaded.spec = loaded2.spec
           /\ loaded.spec.name = "Infra Asset System Local"

\* C8 witness: both the empty and the local-testnet identifier are loaded
C8_Witness ==
    /\ id = <<>>
    /\ id2 = LOCAL_TESTNET_ID
    /\ loaded.tag = "ok"
    /\ loaded2.tag = "ok"

----------------------------------------------------------------------------
(* Properties of run(), checked under Spec.                                *)

\* the messages with which run() refuses a command it has no handler for
NotSupportedMessages ==
    { "Chain 'Default' doesn't support benchmarking",
      "Benchmarking wasn't enabled when building the node. You can enable it with --features runtime-benchmarks.",
      "The chain is not supported",
      "Compile with --features=runtime-benchmarks to enable storage benchmarks.",
      "Try-runtime was not enabled when building the node. You can enable it with --features try-runtime." }

Resolved == chain_spec # NotCalled

OnDefaultChain == Resolved /\ ChainSpec_runtime(chain_spec) = Returned("Default")

\* run() has refused the command, or is about to: nothing was constructed
\* or invoked, and the only way on is the explicit error
Refused ==
    /\ handler = "none"
    /\ partials = 0
    /\ pc \in {"Resolving", "Dispatched", "Failed"}
    /\ pc = "Failed" => (result.tag = "err" /\ result.msg \in NotSupportedMessages)
    /\ pc = "Dispatched" => (ENABLED RejectUnsupported /\ ~ENABLED Construct /\ ~ENABLED Handle)
    /\ pc = "Resolving" => (ENABLED TryRuntimeDisabled /\ ~ENABLED CreateRunner /\ ~ENABLED KeyRun)

\* the pairs without handler that hold as the claim lists them, except
\* benchmark block in a build without runtime-benchmarks
NoHandlerPair ==
    \/ cmd \in {"BenchmarkPallet", "BenchmarkBlock", "BenchmarkStorage"} /\ OnDefaultChain
    \/ cmd \in {"BenchmarkPallet", "BenchmarkStorage"} /\ Resolved /\ ~feat.runtime_benchmarks
    \/ cmd = "TryRuntime" /\ ~feat.try_runtime /\ pc # "Idle"

\* C9 as stated: benchmark pallet, block or storage on a Runtime::Default
\* chain, any of the three in a build without runtime-benchmarks, and
\* try-runtime in a build without try-runtime all end in an explicit
\* 'not supported' error, with no handler invoked.
C9_UnsupportedAsListed ==
    (NoHandlerPair \/ (cmd = "BenchmarkBlock" /\ Resolved /\ ~feat.runtime_benchmarks))
        => Refused

\* C9 as amended: benchmark pallet, block or storage on a Runtime::Default
\* chain, benchmark pallet or storage in a build without runtime-benchmarks,
\* and try-runtime in a build without try-runtime end in an explicit
\* 'not supported' error; no handler and no new_partial is invoked, and
\* run() neither panics nor completes.
C9_UnsupportedRejected == NoHandlerPair => Refused

\* C9 witness: benchmark block on a chain resolved to Runtime::Default, in
\* a build with runtime-benchmarks, has been refused
C9_Witness ==
    /\ cmd = "BenchmarkBlock"
    /\ feat.runtime_benchmarks
    /\ OnDefaultChain
    /\ pc = "Failed"
    /\ result = Err("The chain is not supported")

\* C10: on the node-start path, when the chain specification carries no
\* parachain extension, run() ends with the error of the missing extension;
\* start_generic_aura_node is never invoked and no para id is made up.
C10_NoParaIdNoStart ==
    (cmd = "None" /\ Resolved /\ ~chain_spec.extensions.some)
        => /\ handler = "none"
           /\ pc \in {"Dispatched", "Failed"}
           /\ pc = "Failed" =>
                 result = Err("Could not find parachain extension in chain-spec.")
           /\ pc = "Dispatched" => ENABLED StartNode

\* C10 witness: node start has failed on a specification without extension
C10_Witness ==
    /\ cmd = "None"
    /\ Resolved
    /\ ~chain_spec.extensions.some
    /\ pc = "Failed"
    /\ result.tag = "err"

\* the dispatcher states of a run() that has not panicked
DispatcherStates == {"Idle", "Resolving", "Dispatched", "Completed", "Failed"}

\* the handlers that take no runner: key management reads no chain
\* specification, so there is nothing to resolve before it
RunnerlessHandlers == {"none", "key"}

\* what the dispatcher state machine asks of a state, the set of states
\* run() may be in apart
OrderlyDispatch ==
    /\ pc = "Dispatched" => Resolved
    /\ (handler \notin RunnerlessHandlers \/ partials > 0) => Resolved
    /\ pc = "Failed" <=> result.tag = "err"
    /\ pc = "Completed" => result.tag = "ok" /\ handler # "none"
    /\ pc \in {"Completed", "Failed"} => ~ENABLED Next

\* C16: every invocation of run() is in one of the states Idle, Resolving,
\* Dispatched, Completed, Failed; a handler that takes a runner, and
\* new_partial, are invoked only after the resolution of the runner and
\* chain specification succeeded; Completed and Failed are terminal, and
\* Failed is the state of exactly the invocations that returned an error.
C16_DispatcherStateMachine ==
    /\ pc \in DispatcherStates
    /\ OrderlyDispatch

----------------------------------------------------------------------------
(* Vocabulary of the genesis properties: balances are compared through     *)
(* repeated addition and through their decimal numerals, not through the   *)
(* multiplication the genesis function uses.                               *)

RECURSIVE add_carry(_, _, _)
add_carry(a, b, carry) ==
    IF a = <<>> /\ b = <<>>
    THEN IF carry = 0 THEN <<>> ELSE <<carry>>
    ELSE LET x == IF a = <<>> THEN 0 ELSE Head(a)
             y == IF b = <<>> THEN 0 ELSE Head(b)
             t == x + y + carry
         IN  <<t % BalanceBase>> \o
             add_carry(IF a = <<>> THEN a ELSE Tail(a),
                       IF b = <<>> THEN b ELSE Tail(b),
                       t \div BalanceBase)

Balance_add(a, b) == add_carry(a, b, 0)

RECURSIVE Doubled(_, _)
\* b * 2^n
Doubled(b, n) == IF n = 0 THEN b ELSE Doubled(Balance_add(b, b), n - 1)

\* 4096 = 2^12 times b
Times4096(b) == Doubled(b, 12)

NonZero(b) == \E n \in 1..Len(b) : b[n] # 0

\* the four decimal digits of a limb
Limb4(n) ==
    << DigitChar(n \div 1000), DigitChar((n \div 100) % 10),
       DigitChar((n \div 10) % 10), DigitChar(n % 10) >>

RECURSIVE limbs_decimal(_)
limbs_decimal(b) ==
    IF b = <<>> THEN <<>> ELSE limbs_decimal(Tail(b)) \o Limb4(Head(b))

\* the decimal numeral of a balance
Balance_decimal(b) == StripZeros(<<"0">> \o limbs_decimal(b))

Zeros(n) == [i \in 1..n |-> "0"]

Alice == get_account_id_from_seed("Alice")

\* the accounts of the balances list of g that hold a non-zero balance
Funded(g) ==
    { g.balances.balances[j][1] :
        j \in {n \in 1..Len(g.balances.balances) : NonZero(g.balances.balances[n][2])} }

\* every invulnerable collator of g is a funded account of g
CollatorsFunded(g) ==
    \A k \in 1..Len(g.collator_selection.invulnerables) :
        g.collator_selection.invulnerables[k] \in Funded(g)

IsLive(spec) == spec.name = infra_asset_system_config.name

TokenTriple(spec) ==
    <<spec.properties.tokenSymbol, spec.properties.tokenDecimals,
      spec.properties.ss58Format>>

----------------------------------------------------------------------------
(* Properties of the specifications built in process, under SpecBuiltin.   *)

\* C11 (as stated): in the genesis configuration of each built-in
\* specification, development, local and live, every account of the
\* invulnerable-collator list is in the balances list with a non-zero balance.
C11_InvulnerablesFunded ==
    \A i \in DOMAIN genesisOf : CollatorsFunded(genesisOf[i])

\* C11 (amended): in the genesis configuration of the development and the
\* local specification every invulnerable collator is in the balances list,
\* with 4096 times the existential deposit; the genesis configuration of the
\* live specification has an empty balances list beside its four collators.
C11_TestCollatorsFunded ==
    \A i \in DOMAIN genesisOf :
        LET g == genesisOf[i]
            inv == g.collator_selection.invulnerables
            bal == g.balances.balances
        IN  IF IsLive(specs[i])
            THEN Len(inv) = 4 /\ bal = <<>>
            ELSE \A k \in 1..Len(inv) :
                    \E j \in 1..Len(bal) :
                        bal[j][1] = inv[k] /\ bal[j][2] = Times4096(ed)

\* the genesis configurations of a test specification and of the live one
\* have both been produced
C11_Witness ==
    /\ \E i \in DOMAIN genesisOf : IsLive(specs[i])
    /\ \E i \in DOMAIN genesisOf :
          /\ ~IsLive(specs[i])
          /\ Len(genesisOf[i].collator_selection.invulnerables) = 2
          /\ CollatorsFunded(genesisOf[i])

\* C14 (as stated): the (tokenSymbol, tokenDecimals, ss58Format) triples of
\* the development, local and live specifications are pairwise different.
C14_MetadataPairwiseDistinct ==
    \A i, j \in DOMAIN specs :
        specs[i].name # specs[j].name => TokenTriple(specs[i]) # TokenTriple(specs[j])

\* C14 (amended): the development and the local specification both carry
\* the triple ("", 10, 0) and the live specification carries ("DOT", 10, 0):
\* only the live triple differs from the others, in its tokenSymbol.
C14_MetadataOfModes ==
    \A i \in DOMAIN specs :
        TokenTriple(specs[i]) = IF IsLive(specs[i]) THEN <<"DOT", 10, 0>> ELSE <<"", 10, 0>>

\* all three constructors have built their specification
C14_Witness ==
    { specs[i].name : i \in DOMAIN specs } =
        { infra_asset_system_development_config.name,
          infra_asset_system_local_config.name,
          infra_asset_system_config.name }

\* C17: for each specification built in process, node start reads from the
\* extensions the sub-chain id that the genesis closure wrote into
\* parachain_info.parachain_id.
C17_ExtensionsParaIdIsGenesisParaId ==
    \A i \in DOMAIN genesisOf :
        /\ Extensions_try_get(specs[i]).some
        /\ Extensions_try_get(specs[i]).v.para_id = genesisOf[i].parachain_info.parachain_id
        /\ node_start_para_id(specs[i]) = Returned(genesisOf[i].parachain_info.parachain_id)

\* the genesis closures of all three specifications have run
C17_Witness ==
    { specs[i].name : i \in DOMAIN genesisOf } =
        { infra_asset_system_development_config.name,
          infra_asset_system_local_config.name,
          infra_asset_system_config.name }

----------------------------------------------------------------------------
(* Properties of infra_asset_system_genesis, under SpecGenesis.            *)

\* C12: the balances list has one entry per element of endowed_accounts, in
\* the same order, each with 4096 times the existential deposit, and so
\* none for an account that is not endowed; an empty list gives an empty one.
C12_BalancesPerEndowed ==
    genesis.tag = "ok" =>
        LET bal == genesis.v.balances.balances
            end == ginput.endowed_accounts
        IN  /\ Len(bal) = Len(end)
            /\ \A i \in 1..Len(end) : bal[i] = <<end[i], Times4096(ed)>>
            /\ \A j \in 1..Len(bal) : \E i \in 1..Len(end) : bal[j][1] = end[i]
            /\ end = <<>> => bal = <<>>

\* the function was applied to an endowed list that repeats an account, with
\* an existential deposit whose multiple carries into a higher limb
C12_Witness ==
    /\ genesis.tag = "ok"
    /\ Len(ginput.endowed_accounts) = 2
    /\ ginput.endowed_accounts[1] = ginput.endowed_accounts[2]
    /\ Len(genesis.v.balances.balances[1][2]) > Len(ed)

\* C13: whatever invulnerables, endowed_accounts and para id are given, the
\* assets section is one asset, id 99, owned by Alice, sufficient, with
\* min_balance 1000, and one account entry that credits
\* 1,000,000,000,000,000,000,000 units of it to that owner.
C13_AssetsFixed ==
    genesis.tag = "ok" =>
        LET a == genesis.v.assets
        IN  /\ Len(a.assets) = 1
            /\ a.assets[1][1] = 99
            /\ a.assets[1][2] = Alice
            /\ a.assets[1][3] = TRUE
            /\ Balance_decimal(a.assets[1][4]) = <<"1">> \o Zeros(3)
            /\ Len(a.accounts) = 1
            /\ a.accounts[1][1] = a.assets[1][1]
            /\ a.accounts[1][2] = a.assets[1][2]
            /\ Balance_decimal(a.accounts[1][3]) = <<"1">> \o Zeros(21)

\* the function was applied to arguments that do not mention Alice and give
\* another para id than the built-in specifications
C13_Witness ==
    /\ genesis.tag = "ok"
    /\ ginput.id # infra_asset_system_config.genesis.id
    /\ Len(ginput.invulnerables) > 0
    /\ \A k \in 1..Len(ginput.invulnerables) : ginput.invulnerables[k][1] # Alice
    /\ \A k \in 1..Len(ginput.endowed_accounts) : ginput.endowed_accounts[k] # Alice

\* C15: the session-key list has one entry per invulnerable, in input order,
\* none dropped or merged; in each entry the owning account and the
\* validator id are the invulnerable's account and the session key holds the
\* invulnerable's aura key.
C15_SessionKeysPerInvulnerable ==
    genesis.tag = "ok" =>
        LET keys == genesis.v.session.keys
            inv == ginput.invulnerables
        IN  /\ Len(keys) = Len(inv)
            /\ \A i \in 1..Len(inv) :
                  /\ keys[i][1] = inv[i][1]
                  /\ keys[i][2] = inv[i][1]
                  /\ keys[i][3] = [aura |-> inv[i][2]]

\* the function was applied to a list that names the same collator twice,
\* an account other than the root key, with the key of another seed
C15_Witness ==
    /\ genesis.tag = "ok"
    /\ Len(ginput.invulnerables) = 2
    /\ ginput.invulnerables[1] = ginput.invulnerables[2]
    /\ ginput.invulnerables[1][1] # Alice
    /\ ginput.invulnerables[1][1].account # ginput.invulnerables[1][2].aura
    /\ Len(genesis.v.session.keys) = 2

====
